---------------------------- MODULE Spec2Model ----------------------------
(***************************************************************************)
(* sparkmap: the three batch scripts that reconcile census-tract metrics   *)
(* across the 2010 and 2020 tract vintages and label point features with   *)
(* their county.                                                           *)
(*                                                                         *)
(*   SpecResolve   apply_crosswalk.py, step 1: best_match                  *)
(*   SpecCollapse  apply_crosswalk.py step 2 / prepare_mapbox_data.py      *)
(*                 step 1: md_latest                                       *)
(*   SpecImpute    apply_crosswalk.py, steps 3 to 5: the fill loop         *)
(*   SpecJoin      augment_pois_with_county.py: augment_pois               *)
(*                                                                         *)
(* A data frame is a sequence of records (its rows, in row order); a       *)
(* column is a record field.  Text fields of the CSV sources are tuples of *)
(* one-character strings, tract identifiers are tuples of digits.          *)
(***************************************************************************)
EXTENDS Integers, Sequences, FiniteSets, TLC

VARIABLES
    pc,             \* position of the running script
    crosswalk,      \* rows of tract_crosswalk_2020_2010.txt
    md_xwalk,       \* working frame of step 1
    best_match,     \* frame (GEOID_TRACT_20, GEOID_TRACT_10)
    synth,          \* rows of spark_map_synthesized.csv
    md_synth,       \* working frame of step 2
    md_latest,      \* GEOID -> collapsed row
    geojson,        \* maryland_tracts_with_scores.geojson: columns and rows
    gdf,            \* working frame of steps 3 to 5
    idx,            \* row position of the fill loop
    filled_count,
    missing_before,
    missing_after,
    tracts,         \* tract frame read by augment_pois
    counties,       \* tracts dissolved by county_name
    sindex,         \* order in which the spatial index of counties yields its rows
    files,          \* the point collections of mapbox_ready, by file name
    fpos,           \* position of augment_pois in poi_files
    pois,           \* the collection augment_pois read last
    joined,         \* the frame augment_pois built from it
    log             \* what augment_pois reported, per file

jvars == <<tracts, counties, sindex, files, fpos, pois, joined, log>>

xvars == <<crosswalk, md_xwalk, best_match, synth, md_synth, md_latest,
           geojson, gdf, idx, filled_count, missing_before, missing_after>>

vars == <<pc, xvars, jvars>>

-----------------------------------------------------------------------------
(* Bounds of the model *)

MaxXwalkRows == 3
MaxSeriesRows == 3
MaxUnits == 2
NumFiles == 2
MaxPoints == 2

-----------------------------------------------------------------------------
(* The variables of the scripts a specification does not run *)

JoinIdle ==
    /\ tracts = << >>
    /\ counties = << >>
    /\ sindex = << >>
    /\ files = << >>
    /\ fpos = 0
    /\ pois = << >>
    /\ joined = << >>
    /\ log = << >>

CrosswalkIdle ==
    /\ crosswalk = << >>
    /\ md_xwalk = << >>
    /\ best_match = << >>
    /\ synth = << >>
    /\ md_synth = << >>
    /\ md_latest = << >>
    /\ geojson = << >>
    /\ gdf = << >>
    /\ idx = 0
    /\ filled_count = 0
    /\ missing_before = 0
    /\ missing_after = 0

-----------------------------------------------------------------------------
(* Missing values.  pandas holds a missing number as NaN and a missing     *)
(* string (an empty CSV field read with dtype=str) as NaN as well; the     *)
(* model keeps one missing value per column type.                          *)

NaN == 0 - 1
NullId == << >>

(* Tract identifiers: state (2 digits) followed by the tract digits. *)
MdIds == { <<2, 4, 1>>, <<2, 4, 2>> }
OtherIds == { <<5, 1, 1>> }

IdKey(id) == id[1] * 100 + id[2] * 10 + id[3]

Range(s) == { s[i] : i \in DOMAIN s }

SeqsUpTo(S, n) == UNION { [1..k -> S] : k \in 0..n }

Perms(n) == { p \in [1..n -> 1..n] : \A i, j \in 1..n : p[i] = p[j] => i = j }

RECURSIVE SortedIds(_)
SortedIds(S) ==
    IF S = {} THEN << >>
    ELSE LET m == CHOOSE x \in S : \A y \in S : IdKey(x) <= IdKey(y)
         IN  <<m>> \o SortedIds(S \ {m})

-----------------------------------------------------------------------------
(* pd.to_numeric(..., errors='coerce') on a text field *)

Digits == <<"0", "1", "2", "3", "4", "5", "6", "7", "8", "9">>

IsDigit(c) == \E i \in DOMAIN Digits : Digits[i] = c

DigitVal(c) == (CHOOSE i \in DOMAIN Digits : Digits[i] = c) - 1

RECURSIVE ParseInt(_)
ParseInt(s) ==
    IF s = << >> THEN 0
    ELSE ParseInt(SubSeq(s, 1, Len(s) - 1)) * 10 + DigitVal(s[Len(s)])

to_numeric(s) ==
    IF s # << >> /\ \A i \in DOMAIN s : IsDigit(s[i]) THEN ParseInt(s) ELSE NaN

(* DataFrame.sort_values(col, ascending=False): kind defaults to           *)
(* 'quicksort', which is not stable, and na_position to 'last'.  The       *)
(* result is one of the row orders in which the numeric keys do not        *)
(* increase and the NaN keys follow, those in their input order.           *)
sort_values(keys) ==
    { p \in Perms(Len(keys)) :
        \A i, j \in DOMAIN keys :
            i < j =>
                /\ keys[p[i]] = NaN => (keys[p[j]] = NaN /\ p[i] < p[j])
                /\ (keys[p[i]] # NaN /\ keys[p[j]] # NaN) => keys[p[i]] >= keys[p[j]] }

Reorder(frame, p) == [i \in DOMAIN frame |-> frame[p[i]]]

(* GroupBy.first(): per column, the first non-missing value of the group,  *)
(* in row order; missing when the group has none.                          *)
GroupFirst(frame, keycol, key, col, null) ==
    LET hits == { i \in DOMAIN frame : frame[i][keycol] = key /\ frame[i][col] # null }
    IN  IF hits = {} THEN null
        ELSE frame[CHOOSE i \in hits : \A j \in hits : i <= j][col]

-----------------------------------------------------------------------------
(* apply_crosswalk.py, step 1: the crosswalk *)

WeightTexts == { <<"9">>, <<"1", "0">>, <<"x">>, << >> }

XwalkRows ==
    [GEOID_TRACT_20 : MdIds \cup OtherIds,
     GEOID_TRACT_10 : MdIds \cup {NullId},
     AREALAND_PART : WeightTexts]

StartsWith24(id) == Len(id) >= 2 /\ id[1] = 2 /\ id[2] = 4

FilterMaryland ==
    /\ pc = "xwalk_filter"
    /\ LET Keep(r) == StartsWith24(r.GEOID_TRACT_20)
       IN  md_xwalk' = SelectSeq(crosswalk, Keep)
    /\ pc' = "xwalk_numeric"
    /\ UNCHANGED <<crosswalk, best_match, synth, md_synth, md_latest, geojson, gdf,
                   idx, filled_count, missing_before, missing_after, jvars>>

CoerceWeight ==
    /\ pc = "xwalk_numeric"
    /\ md_xwalk' = [i \in DOMAIN md_xwalk |->
                      [md_xwalk[i] EXCEPT !.AREALAND_PART = to_numeric(@)]]
    /\ pc' = "xwalk_sort"
    /\ UNCHANGED <<crosswalk, best_match, synth, md_synth, md_latest, geojson, gdf,
                   idx, filled_count, missing_before, missing_after, jvars>>

SortByWeight ==
    /\ pc = "xwalk_sort"
    /\ \E p \in sort_values([i \in DOMAIN md_xwalk |-> md_xwalk[i].AREALAND_PART]) :
           md_xwalk' = Reorder(md_xwalk, p)
    /\ pc' = "xwalk_group"
    /\ UNCHANGED <<crosswalk, best_match, synth, md_synth, md_latest, geojson, gdf,
                   idx, filled_count, missing_before, missing_after, jvars>>

BestMatchOf(frame) ==
    LET keys == SortedIds({ frame[i].GEOID_TRACT_20 : i \in DOMAIN frame })
    IN  [k \in DOMAIN keys |->
            [GEOID_TRACT_20 |-> keys[k],
             GEOID_TRACT_10 |->
                 GroupFirst(frame, "GEOID_TRACT_20", keys[k], "GEOID_TRACT_10", NullId)]]

GroupBestMatch ==
    /\ pc = "xwalk_group"
    /\ best_match' = BestMatchOf(md_xwalk)
    /\ pc' = "xwalk_done"
    /\ UNCHANGED <<crosswalk, md_xwalk, synth, md_synth, md_latest, geojson, gdf,
                   idx, filled_count, missing_before, missing_after, jvars>>

InitResolve ==
    /\ pc = "xwalk_filter"
    /\ crosswalk \in SeqsUpTo(XwalkRows, MaxXwalkRows)
    /\ md_xwalk = << >>
    /\ best_match = << >>
    /\ synth = << >>
    /\ md_synth = << >>
    /\ md_latest = << >>
    /\ geojson = << >>
    /\ gdf = << >>
    /\ idx = 0
    /\ filled_count = 0
    /\ missing_before = 0
    /\ missing_after = 0
    /\ JoinIdle

NextResolve == FilterMaryland \/ CoerceWeight \/ SortByWeight \/ GroupBestMatch

SpecResolve == InitResolve /\ [][NextResolve]_vars

(* C1: once best_match is built, every GEOID_TRACT_20 of the Maryland rows  *)
(* of the relationship table is mapped to the GEOID_TRACT_10 of its entry   *)
(* with the largest AREALAND_PART, a non-numeric or blank weight ranking    *)
(* below every numeric one, and among several entries of largest weight to  *)
(* that of the first in input order.                                        *)
EntriesOf(n) ==
    { i \in DOMAIN crosswalk : crosswalk[i].GEOID_TRACT_20 = n }

WeightRank(i) == to_numeric(crosswalk[i].AREALAND_PART)

FirstMaxEntry(n) ==
    CHOOSE i \in EntriesOf(n) :
        \A j \in EntriesOf(n) :
            \/ WeightRank(j) < WeightRank(i)
            \/ (WeightRank(j) = WeightRank(i) /\ i <= j)

MappedOldId(n) ==
    LET hits == { k \in DOMAIN best_match : best_match[k].GEOID_TRACT_20 = n }
    IN  { best_match[k].GEOID_TRACT_10 : k \in hits }

C1_MaxWeightFirstInInputOrder ==
    pc = "xwalk_done" =>
        \A n \in MdIds :
            EntriesOf(n) # {} =>
                MappedOldId(n) = { crosswalk[FirstMaxEntry(n)].GEOID_TRACT_10 }

(* The same statement on the tables in which no two entries of a tract tie  *)
(* and every entry names its 2010 tract.                                    *)
NoTieNoBlank ==
    \A i, j \in DOMAIN crosswalk :
        /\ crosswalk[i].GEOID_TRACT_10 # NullId
        /\ (i # j /\ crosswalk[i].GEOID_TRACT_20 = crosswalk[j].GEOID_TRACT_20)
               => (WeightRank(i) # WeightRank(j))

MaxWeightWhenNoTieNoBlank == NoTieNoBlank => C1_MaxWeightFirstInInputOrder

-----------------------------------------------------------------------------
(* apply_crosswalk.py, step 2, and prepare_mapbox_data.py, step 1: the     *)
(* latest year of every tract of the synthesized series                    *)

YearTexts == { <<"9">>, <<"1", "0">>, <<"x">> }
StateNames == { "Maryland", "Virginia" }
KfrValues == { NaN, 5 }
CoiValues == { NaN, 3, 9 }

SynthRows ==
    [GEOID : MdIds,
     year : YearTexts,
     state_name : StateNames,
     kfr_pooled_pooled_mean : KfrValues,
     z_COI_nat : CoiValues]

FilterState ==
    /\ pc = "synth_filter"
    /\ LET Keep(r) == r.state_name = "Maryland"
       IN  md_synth' = SelectSeq(synth, Keep)
    /\ pc' = "synth_numeric"
    /\ UNCHANGED <<crosswalk, md_xwalk, best_match, synth, md_latest, geojson, gdf,
                   idx, filled_count, missing_before, missing_after, jvars>>

CoerceYear ==
    /\ pc = "synth_numeric"
    /\ md_synth' = [i \in DOMAIN md_synth |-> [md_synth[i] EXCEPT !.year = to_numeric(@)]]
    /\ pc' = "synth_sort"
    /\ UNCHANGED <<crosswalk, md_xwalk, best_match, synth, md_latest, geojson, gdf,
                   idx, filled_count, missing_before, missing_after, jvars>>

SortByYear ==
    /\ pc = "synth_sort"
    /\ \E p \in sort_values([i \in DOMAIN md_synth |-> md_synth[i].year]) :
           md_synth' = Reorder(md_synth, p)
    /\ pc' = "synth_group"
    /\ UNCHANGED <<crosswalk, md_xwalk, best_match, synth, md_latest, geojson, gdf,
                   idx, filled_count, missing_before, missing_after, jvars>>

LatestOf(frame) ==
    [g \in { frame[i].GEOID : i \in DOMAIN frame } |->
        [year |-> GroupFirst(frame, "GEOID", g, "year", NaN),
         state_name |-> GroupFirst(frame, "GEOID", g, "state_name", ""),
         kfr_pooled_pooled_mean |->
             GroupFirst(frame, "GEOID", g, "kfr_pooled_pooled_mean", NaN),
         z_COI_nat |-> GroupFirst(frame, "GEOID", g, "z_COI_nat", NaN)]]

GroupLatest ==
    /\ pc = "synth_group"
    /\ md_latest' = LatestOf(md_synth)
    /\ pc' = "synth_done"
    /\ UNCHANGED <<crosswalk, md_xwalk, best_match, synth, md_synth, geojson, gdf,
                   idx, filled_count, missing_before, missing_after, jvars>>

InitCollapse ==
    /\ pc = "synth_filter"
    /\ synth \in SeqsUpTo(SynthRows, MaxSeriesRows)
    /\ crosswalk = << >>
    /\ md_xwalk = << >>
    /\ best_match = << >>
    /\ md_synth = << >>
    /\ md_latest = << >>
    /\ geojson = << >>
    /\ gdf = << >>
    /\ idx = 0
    /\ filled_count = 0
    /\ missing_before = 0
    /\ missing_after = 0
    /\ JoinIdle

NextCollapse == FilterState \/ CoerceYear \/ SortByYear \/ GroupLatest

SpecCollapse == InitCollapse /\ [][NextCollapse]_vars

MetricCols == { "kfr_pooled_pooled_mean", "z_COI_nat" }

SeriesOf(g) ==
    { i \in DOMAIN synth : synth[i].GEOID = g /\ synth[i].state_name = "Maryland" }

Period(i) == to_numeric(synth[i].year)

IsLatestRow(g, i) ==
    /\ i \in SeriesOf(g)
    /\ Period(i) # NaN
    /\ \A j \in SeriesOf(g) \ {i} : Period(j) < Period(i)

(* C2: once md_latest is built it has exactly one row for every GEOID of    *)
(* the Maryland rows of the series, and where one row of a tract has the    *)
(* numerically largest year, every metric of the tract's row in md_latest   *)
(* is the value that row holds, a missing value included.                   *)
C2_LatestRowFieldForField ==
    pc = "synth_done" =>
        /\ DOMAIN md_latest = { g \in MdIds : SeriesOf(g) # {} }
        /\ \A g \in MdIds : \A i \in DOMAIN synth :
               IsLatestRow(g, i) =>
                   \A m \in MetricCols : md_latest[g][m] = synth[i][m]

(* The parts of C2 that the collapse does keep: one row per tract, carrying *)
(* the largest numeric year of the tract.                                   *)
OneRowPerUnitWithLatestYear ==
    pc = "synth_done" =>
        /\ DOMAIN md_latest = { g \in MdIds : SeriesOf(g) # {} }
        /\ \A g \in MdIds : \A i \in DOMAIN synth :
               IsLatestRow(g, i) => md_latest[g].year = Period(i)

-----------------------------------------------------------------------------
(* apply_crosswalk.py, steps 3 to 5: fill the 2020 tracts that miss the    *)
(* primary metric from their 2010 parent                                   *)

Primary == "kfr_pooled_pooled_mean"

(* Columns of md_latest: those of the synthesized series. *)
LatestCols == { "GEOID", "year", "state_name", "kfr_pooled_pooled_mean", "z_COI_nat" }

score_cols == LatestCols \ { "GEOID", "year", "state_name" }

(* Column sets of the tract GeoJSON the model draws from. *)
GeoColSets ==
    { { "GEOID", "geometry", "kfr_pooled_pooled_mean", "z_COI_nat" },
      { "GEOID", "geometry", "kfr_pooled_pooled_mean" },
      { "GEOID", "geometry", "z_COI_nat" } }

UnitKfrValues == { NaN, 7 }
UnitCoiValues == { NaN, 3 }

UnitRows(C) ==
    { [c \in C |->
          CASE c = "GEOID" -> g
            [] c = "geometry" -> "Polygon"
            [] c = "kfr_pooled_pooled_mean" -> k
            [] c = "z_COI_nat" -> z] :
      g \in MdIds, k \in UnitKfrValues, z \in UnitCoiValues }

GeoFrames ==
    UNION { UNION { [1..n -> UnitRows(C)] : n \in 1..MaxUnits } : C \in GeoColSets }

(* The frames step 1 can leave in best_match: one row per 2020 tract, in    *)
(* GEOID order.                                                             *)
BestMatchFrames ==
    { BestMatchOf(f) : f \in SeqsUpTo([GEOID_TRACT_20 : MdIds,
                                       GEOID_TRACT_10 : MdIds \cup {NullId},
                                       AREALAND_PART : {NaN}], Cardinality(MdIds)) }

(* The tables step 2 can leave in md_latest. *)
LatestRows ==
    [year : {10}, state_name : {"Maryland"},
     kfr_pooled_pooled_mean : KfrValues, z_COI_nat : {NaN, 9}]

LatestTables == UNION { [D -> LatestRows] : D \in SUBSET MdIds }

Columns(frame) == DOMAIN frame[1]

IsNa(v) == v = NaN

CountNa(frame, col) == Cardinality({ i \in DOMAIN frame : IsNa(frame[i][col]) })

LoadGeoJSON ==
    /\ pc = "load"
    /\ Primary \in Columns(geojson)
    /\ gdf' = geojson
    /\ missing_before' = CountNa(geojson, Primary)
    /\ pc' = "merge"
    /\ UNCHANGED <<crosswalk, md_xwalk, best_match, synth, md_synth, md_latest,
                   geojson, idx, filled_count, missing_after, jvars>>

(* gdf['kfr_pooled_pooled_mean'] on a frame without the column: KeyError *)
LoadGeoJSONKeyError ==
    /\ pc = "load"
    /\ Primary \notin Columns(geojson)
    /\ gdf' = geojson
    /\ pc' = "error"
    /\ UNCHANGED <<crosswalk, md_xwalk, best_match, synth, md_synth, md_latest,
                   geojson, idx, filled_count, missing_before, missing_after, jvars>>

(* DataFrame.merge(right, on='GEOID', how='left'): every left row, in       *)
(* order, once per right row of the same key, and once with the right       *)
(* columns missing when there is none.                                      *)
RECURSIVE Flatten(_)
Flatten(ss) == IF ss = << >> THEN << >> ELSE Head(ss) \o Flatten(Tail(ss))

WithColumn(row, col, v) ==
    [c \in DOMAIN row \cup {col} |-> IF c = col THEN v ELSE row[c]]

(* how='inner': the units the crosswalk does not have are dropped *)
MergeInner(left, right) ==
    Flatten([i \in DOMAIN left |->
        LET Hit(r) == r.GEOID_TRACT_20 = left[i]["GEOID"]
            hits == SelectSeq(right, Hit)
        IN  [k \in DOMAIN hits |->
                WithColumn(left[i], "GEOID_2010", hits[k].GEOID_TRACT_10)]])

MergeLeft(left, right) ==
    Flatten([i \in DOMAIN left |->
        LET Hit(r) == r.GEOID_TRACT_20 = left[i]["GEOID"]
            hits == SelectSeq(right, Hit)
        IN  IF hits = << >>
            THEN << WithColumn(left[i], "GEOID_2010", NullId) >>
            ELSE [k \in DOMAIN hits |->
                     WithColumn(left[i], "GEOID_2010", hits[k].GEOID_TRACT_10)]])

MergeCrosswalk ==
    /\ pc = "merge"
    /\ gdf' = MergeLeft(gdf, best_match)
    /\ filled_count' = 0
    /\ idx' = 1
    /\ pc' = "loop"
    /\ UNCHANGED <<crosswalk, md_xwalk, best_match, synth, md_synth, md_latest,
                   geojson, missing_before, missing_after, jvars>>

MissingAnyScore(row) == \E c \in score_cols \cap DOMAIN row : IsNa(row[c])

(* pd.isna(row.get('kfr_pooled_pooled_mean')) *)
MissingPrimary(row) == IsNa(row[Primary])

HasParentUnchecked(row) == row["GEOID_2010"] # NullId

(* geoid_2010 and geoid_2010 in synth_2010.index: a missing GEOID_2010 is   *)
(* no key of the index.                                                     *)
HasParent(row) ==
    /\ row["GEOID_2010"] # NullId
    /\ row["GEOID_2010"] \in DOMAIN md_latest

CopyPrimaryOnly(row, parent_data) ==
    [c \in DOMAIN row |-> IF c = Primary THEN parent_data[c] ELSE row[c]]

CopyWhereMissing(row, parent_data) ==
    [c \in DOMAIN row |->
        IF c \in score_cols /\ c \in DOMAIN parent_data /\ IsNa(row[c])
        THEN parent_data[c] ELSE row[c]]

(* the inner loop over score_cols *)
CopyParent(row, parent_data) ==
    [c \in DOMAIN row |->
        IF c \in score_cols /\ c \in DOMAIN parent_data THEN parent_data[c] ELSE row[c]]

(* synth_2010.loc[geoid_2010] raises KeyError on a label that is not in the *)
(* index; the guard of the loop keeps it from being reached.                *)
FillRow ==
    /\ pc = "loop"
    /\ idx <= Len(gdf)
    /\ MissingPrimary(gdf[idx])
    /\ HasParent(gdf[idx])
    /\ IF gdf[idx]["GEOID_2010"] \in DOMAIN md_latest
       THEN /\ gdf' = [gdf EXCEPT ![idx] = CopyParent(@, md_latest[@["GEOID_2010"]])]
            /\ filled_count' = filled_count + 1
            /\ idx' = idx + 1
            /\ pc' = pc
       ELSE /\ pc' = "error"
            /\ UNCHANGED <<gdf, filled_count, idx>>
    /\ UNCHANGED <<crosswalk, md_xwalk, best_match, synth, md_synth, md_latest,
                   geojson, missing_before, missing_after, jvars>>

SkipPresent ==
    /\ pc = "loop"
    /\ idx <= Len(gdf)
    /\ ~MissingPrimary(gdf[idx])
    /\ idx' = idx + 1
    /\ UNCHANGED <<pc, crosswalk, md_xwalk, best_match, synth, md_synth, md_latest,
                   geojson, gdf, filled_count, missing_before, missing_after, jvars>>

SkipNoParent ==
    /\ pc = "loop"
    /\ idx <= Len(gdf)
    /\ MissingPrimary(gdf[idx])
    /\ ~HasParent(gdf[idx])
    /\ idx' = idx + 1
    /\ UNCHANGED <<pc, crosswalk, md_xwalk, best_match, synth, md_synth, md_latest,
                   geojson, gdf, filled_count, missing_before, missing_after, jvars>>

CountMissingAfter ==
    /\ pc = "loop"
    /\ idx > Len(gdf)
    /\ missing_after' = CountNa(gdf, Primary)
    /\ pc' = "save"
    /\ UNCHANGED <<crosswalk, md_xwalk, best_match, synth, md_synth, md_latest,
                   geojson, gdf, idx, filled_count, missing_before, jvars>>

DropColumn(frame, col) ==
    [i \in DOMAIN frame |-> [c \in DOMAIN frame[i] \ {col} |-> frame[i][c]]]

SaveGeoJSON ==
    /\ pc = "save"
    /\ gdf' = DropColumn(gdf, "GEOID_2010")
    /\ geojson' = gdf'
    /\ pc' = "done"
    /\ UNCHANGED <<crosswalk, md_xwalk, best_match, synth, md_synth, md_latest,
                   idx, filled_count, missing_before, missing_after, jvars>>

(* The script reads and writes the same GeoJSON: a further run starts from  *)
(* the file the last one saved.                                             *)
RunAgain ==
    /\ pc = "done"
    /\ pc' = "load"
    /\ gdf' = << >>
    /\ idx' = 0
    /\ filled_count' = 0
    /\ missing_before' = 0
    /\ missing_after' = 0
    /\ UNCHANGED <<crosswalk, md_xwalk, best_match, synth, md_synth, md_latest, geojson, jvars>>

InitImpute ==
    /\ pc = "load"
    /\ best_match \in BestMatchFrames
    /\ md_latest \in LatestTables
    /\ geojson \in GeoFrames
    /\ crosswalk = << >>
    /\ md_xwalk = << >>
    /\ synth = << >>
    /\ md_synth = << >>
    /\ gdf = << >>
    /\ idx = 0
    /\ filled_count = 0
    /\ missing_before = 0
    /\ missing_after = 0
    /\ JoinIdle

NextImpute ==
    \/ LoadGeoJSON
    \/ LoadGeoJSONKeyError
    \/ MergeCrosswalk
    \/ FillRow
    \/ SkipPresent
    \/ SkipNoParent
    \/ CountMissingAfter
    \/ SaveGeoJSON
    \/ RunAgain

SpecImpute == InitImpute /\ [][NextImpute]_vars

-----------------------------------------------------------------------------
(* Statements about one run of the fill loop.  When the loop has ended     *)
(* (pc = "save") gdf holds the result, still with the GEOID_2010 column,   *)
(* and geojson still holds the input, row for row.                         *)

Units == DOMAIN geojson

PresentBefore(i) == ~IsNa(geojson[i][Primary])

(* the 2010 tract the crosswalk gives the unit, NullId when it gives none *)
ResolvedParent(i) ==
    LET hits == { k \in DOMAIN best_match :
                    best_match[k].GEOID_TRACT_20 = geojson[i]["GEOID"] }
    IN  IF hits = {} THEN NullId ELSE best_match[CHOOSE k \in hits : TRUE].GEOID_TRACT_10

Fillable(i) ==
    /\ ~PresentBefore(i)
    /\ ResolvedParent(i) # NullId
    /\ ResolvedParent(i) \in DOMAIN md_latest

Unresolvable(i) == ~PresentBefore(i) /\ ~Fillable(i)

SansHelper(row) == [c \in DOMAIN row \ {"GEOID_2010"} |-> row[c]]

(* C3: after the loop, filled_count + the units whose primary metric is     *)
(* missing afterwards + the units whose primary metric was present before   *)
(* = the number of units, and every unit counted as filled has its primary  *)
(* metric afterwards.                                                       *)
C3_CoverageCountsAddUp ==
    pc = "save" =>
        /\ filled_count + missing_after + Cardinality({ i \in Units : PresentBefore(i) })
               = Len(geojson)
        /\ \A i \in Units : Fillable(i) => ~IsNa(gdf[i][Primary])

(* C4: after the loop, in every unit that was filled (primary metric        *)
(* missing, crosswalk parent with a row in md_latest), each eligible metric *)
(* the unit has (a column of md_latest other than GEOID, year, state_name   *)
(* that is a column of the tract frame) equals the value of the parent's    *)
(* row.  A metric the tract frame has no column for is not added.           *)
C4_FilledEqualsParent ==
    pc = "save" =>
        \A i \in Units :
            Fillable(i) =>
                \A c \in score_cols \cap Columns(geojson) :
                    gdf[i][c] = md_latest[ResolvedParent(i)][c]

C4_Witness ==
    /\ pc = "save"
    /\ \E i \in Units :
           /\ Fillable(i)
           /\ "z_COI_nat" \in Columns(geojson)
           /\ geojson[i]["z_COI_nat"] = 3
           /\ md_latest[ResolvedParent(i)]["z_COI_nat"] = 9
           /\ md_latest[ResolvedParent(i)][Primary] = 5
           /\ gdf[i][Primary] = 5

(* C8: a run that finds no unit with its primary metric missing counts no   *)
(* filled unit and leaves every field of every unit as it was in the file   *)
(* it read; this is so too for a run that reads what an earlier run saved.  *)
C8_NothingMissingNothingChanged ==
    (pc = "save" /\ missing_before = 0) =>
        /\ filled_count = 0
        /\ DropColumn(gdf, "GEOID_2010") = geojson

(* a run on the output of a run that filled unit i (5 is a parent's value,  *)
(* never one of an input unit), with a unit j the fill would change         *)
C8_Witness ==
    /\ pc = "save"
    /\ missing_before = 0
    /\ \E i, j \in Units :
           /\ geojson[i][Primary] = 5
           /\ geojson[j][Primary] = 7
           /\ HasParent(gdf[j])
           /\ "z_COI_nat" \in Columns(geojson)
           /\ IsNa(geojson[j]["z_COI_nat"])
           /\ md_latest[gdf[j]["GEOID_2010"]]["z_COI_nat"] = 9

(* C9: a unit whose primary metric is missing and that has no crosswalk     *)
(* entry, or whose 2010 tract has no row in md_latest, keeps every field,   *)
(* its primary metric still missing; it is not among the units filled_count *)
(* counts and is among those missing_after counts; and the loop raises no   *)
(* exception (the run fails only on a file without the primary column).     *)
C9_UnresolvableStaysMissing ==
    /\ pc = "error" => Primary \notin Columns(geojson)
    /\ pc = "save" =>
           /\ \A i \in Units :
                  Unresolvable(i) =>
                      /\ SansHelper(gdf[i]) = geojson[i]
                      /\ IsNa(gdf[i][Primary])
           /\ filled_count = Cardinality({ i \in Units : Fillable(i) })
           /\ missing_after >= Cardinality({ i \in Units : Unresolvable(i) })
           /\ missing_after = Cardinality({ i \in Units : IsNa(gdf[i][Primary]) })

(* both kinds of unresolvable unit in one run: no crosswalk entry, and a    *)
(* 2010 tract without a row in md_latest                                    *)
C9_Witness ==
    /\ pc = "save"
    /\ \E i, j \in Units :
           /\ Unresolvable(i)
           /\ ResolvedParent(i) = NullId
           /\ Unresolvable(j)
           /\ ResolvedParent(j) # NullId
           /\ ResolvedParent(j) \notin DOMAIN md_latest
           /\ md_latest # << >>
           /\ missing_after = 2

(* C10: a unit whose primary metric was present keeps every field, even a   *)
(* missing secondary metric its parent has a value for; a filled unit has   *)
(* every eligible metric it carries set to the parent's value, whatever it  *)
(* held before, and keeps its other fields.                                 *)
C10_UntouchedOrOverwritten ==
    pc = "save" =>
        \A i \in Units :
            /\ PresentBefore(i) => SansHelper(gdf[i]) = geojson[i]
            /\ Fillable(i) =>
                   \A c \in Columns(geojson) :
                       gdf[i][c] = IF c \in score_cols
                                   THEN md_latest[ResolvedParent(i)][c]
                                   ELSE geojson[i][c]

(* a present unit that lacks the secondary metric its parent has, beside a  *)
(* filled unit whose own secondary metric the parent's missing one replaced *)
C10_Witness ==
    /\ pc = "save"
    /\ "z_COI_nat" \in Columns(geojson)
    /\ \E i, j \in Units :
           /\ PresentBefore(i)
           /\ IsNa(geojson[i]["z_COI_nat"])
           /\ HasParent(gdf[i])
           /\ md_latest[gdf[i]["GEOID_2010"]]["z_COI_nat"] = 9
           /\ IsNa(gdf[i]["z_COI_nat"])
           /\ Fillable(j)
           /\ geojson[j]["z_COI_nat"] = 3
           /\ gdf[j]["z_COI_nat"] # 3

(* the unit ids of a frame, row by row *)
IdsOf(frame) == [i \in DOMAIN frame |-> frame[i]["GEOID"]]

(* the attributes of a frame, row by row *)
AttributesOf(frame) == [i \in DOMAIN frame |-> DOMAIN frame[i]]

(* From the merge to the save, gdf has the units of the file read, each as  *)
(* often and in the same order, with the attributes read and GEOID_2010.    *)
MergedKeepsUnits ==
    pc \in {"loop", "save"} =>
        /\ IdsOf(gdf) = IdsOf(geojson)
        /\ AttributesOf(gdf) =
               [i \in DOMAIN geojson |-> DOMAIN geojson[i] \cup {"GEOID_2010"}]

(* The step that saves writes a file with the units of the file read, each  *)
(* as often and in the same order, with the attributes read and no          *)
(* GEOID_2010.                                                              *)
SavedKeepsUnits ==
    pc = "save" /\ pc' = "done" =>
        /\ IdsOf(geojson') = IdsOf(geojson)
        /\ AttributesOf(geojson') = AttributesOf(geojson)
        /\ \A i \in DOMAIN geojson' : "GEOID_2010" \notin DOMAIN geojson'[i]

(* C11: whatever the crosswalk and the series, the file imputation saves    *)
(* holds the unit ids of the file it read, each the same number of times    *)
(* and in the same order (the merge neither duplicates nor drops a unit,    *)
(* best_match having one row per 2020 tract), and exactly the attributes    *)
(* read, the GEOID_2010 column dropped before the save.                     *)
C11_UnitSetAndSchemaPreserved == []MergedKeepsUnits /\ [][SavedKeepsUnits]_vars

(* a saved file with the same unit twice, both rows filled from the parent  *)
(* the crosswalk gives it, the crosswalk also having a tract the file does  *)
(* not have                                                                 *)
C11_Witness ==
    /\ pc = "done"
    /\ Len(geojson) = 2
    /\ geojson[1]["GEOID"] = geojson[2]["GEOID"]
    /\ \E k \in DOMAIN best_match : best_match[k].GEOID_TRACT_20 = geojson[1]["GEOID"]
    /\ \E k \in DOMAIN best_match : best_match[k].GEOID_TRACT_20 # geojson[1]["GEOID"]
    /\ filled_count = 2

-----------------------------------------------------------------------------
(* augment_pois_with_county.py: label every point of the point collections *)
(* with the county it lies in                                              *)
(*                                                                         *)
(* Geometry is one-dimensional: a polygon is a set of closed intervals     *)
(* [lo, hi], a point an integer position.  The two tracts are [0,1] and    *)
(* [1,2]: position 1 lies on their shared border (in one county when the   *)
(* two tracts are of the same county or one of them has no county name,    *)
(* in two otherwise), position 3 in neither.                               *)

poi_files ==
    << "hospitals.geojson", "schools.geojson", "parks.geojson",
       "libraries.geojson", "stores.geojson" >>

(* the file names the model runs the loop over: the first NumFiles *)
PoiFiles == SubSeq(poi_files, 1, NumFiles)

NullName == "NaN"
CountyOrder == << "A", "B" >>

(* county names of the two tracts: two counties, A to the left or to the   *)
(* right; one county; one county and a tract without a name; no county     *)
TractCounties ==
    { << "A", "B" >>, << "B", "A" >>, << "A", "A" >>, << "A", NullName >>,
      << NullName, NullName >> }

TractFrames ==
    { << [geometry |-> { [lo |-> 0, hi |-> 1] }, county_name |-> c[1]],
         [geometry |-> { [lo |-> 1, hi |-> 2] }, county_name |-> c[2]] >> :
      c \in TractCounties }

PointPositions == { 1, 3 }

PlainRows == [geometry : PointPositions]
LabelledRows == [geometry : {1}, county_name : { "A" }]

FileStates ==
    { [state |-> "missing", rows |-> << >>], [state |-> "unreadable", rows |-> << >>] }
    \cup { [state |-> "ok", rows |-> r] :
             r \in UNION { [1..n -> PlainRows] : n \in 1..MaxPoints } }
    \cup { [state |-> "ok", rows |-> << r >>] : r \in LabelledRows }

Intersects(p, geom) == \E iv \in geom : iv.lo <= p /\ p <= iv.hi

(* tracts[['geometry', 'county_name']].dissolve(by='county_name')          *)
(* .reset_index(): one row per county name, in name order, its geometry    *)
(* the union of the county's tracts; tracts without a name are dropped.    *)
Dissolve(frame) ==
    LET Present(name) == \E i \in DOMAIN frame : frame[i].county_name = name
        names == SelectSeq(CountyOrder, Present)
    IN  [k \in DOMAIN names |->
            [county_name |-> names[k],
             geometry |-> UNION { frame[i].geometry :
                                    i \in { j \in DOMAIN frame :
                                              frame[j].county_name = names[k] } }]]

(* gpd.read_file: the rows of the file under a RangeIndex *)
read_file(file) ==
    [i \in DOMAIN file.rows |-> WithColumn(file.rows[i], "index", i - 1)]

(* gpd.sjoin(pois, counties, how='left', predicate='intersects'): the left *)
(* rows in order, each once per intersecting right row, in the order the   *)
(* spatial index of the right frame yields them (its query is not sorted), *)
(* and once with the right columns missing when no right row intersects.   *)
(* A column name the two frames share gets the suffixes _left and _right.  *)
JoinRow(l, k, name) ==
    IF "county_name" \in DOMAIN l
    THEN [index |-> l["index"], geometry |-> l["geometry"],
          county_name_left |-> l["county_name"],
          index_right |-> k, county_name_right |-> name]
    ELSE [index |-> l["index"], geometry |-> l["geometry"],
          index_right |-> k, county_name |-> name]

sjoin(left, right, order) ==
    Flatten([i \in DOMAIN left |->
        LET Hit(k) == Intersects(left[i]["geometry"], right[k].geometry)
            hits == SelectSeq(order, Hit)
        IN  IF hits = << >>
            THEN << JoinRow(left[i], NaN, NullName) >>
            ELSE [h \in DOMAIN hits |->
                     JoinRow(left[i], hits[h] - 1, right[hits[h]].county_name)]])

RECURSIVE Pick(_, _, _)
Pick(frame, keep, i) ==
    IF i > Len(frame) THEN << >>
    ELSE (IF i \in keep THEN << frame[i] >> ELSE << >>) \o Pick(frame, keep, i + 1)

KeepAll(frame) == frame

KeepLast(frame) ==
    Pick(frame, { i \in DOMAIN frame :
                    \A j \in DOMAIN frame : j > i => frame[j]["index"] # frame[i]["index"] }, 1)

(* joined[~joined.index.duplicated(keep='first')] *)
KeepFirst(frame) ==
    Pick(frame, { i \in DOMAIN frame :
                    \A j \in DOMAIN frame : j < i => frame[j]["index"] # frame[i]["index"] }, 1)

(* the frame of the try block before county_name is filled *)
Deduplicated(frame) == DropColumn(KeepFirst(sjoin(frame, counties, sindex)), "index_right")

(* joined['county_name'].fillna('') *)
FillNames(frame) ==
    [i \in DOMAIN frame |->
        [frame[i] EXCEPT !["county_name"] = IF @ = NullName THEN "" ELSE @]]

(* to_file: the columns of the frame, without its index *)
to_file(frame) == [state |-> "ok", rows |-> DropColumn(frame, "index")]

Report(name, event) == Append(log, [file |-> name, event |-> event])

AbortLoop(pos) == Len(PoiFiles) + 1

(* except Exception as e: print(...), and the loop goes on to the next file *)
OnException(pos) == pos + 1

LoadTracts ==
    /\ pc = "tracts"
    /\ counties' = Dissolve(tracts)
    /\ sindex' \in Perms(Len(counties'))
    /\ fpos' = 1
    /\ pc' = "files"
    /\ UNCHANGED <<xvars, tracts, files, pois, joined, log>>

InLoop == pc = "files" /\ fpos <= Len(PoiFiles)

(* if not path.exists(): continue *)
SkipMissing ==
    /\ InLoop
    /\ files[PoiFiles[fpos]].state = "missing"
    /\ log' = Report(PoiFiles[fpos], "skipped")
    /\ fpos' = fpos + 1
    /\ UNCHANGED <<pc, xvars, tracts, counties, sindex, files, pois, joined>>

(* gpd.read_file raises: except Exception *)
ReadFails ==
    /\ InLoop
    /\ files[PoiFiles[fpos]].state = "unreadable"
    /\ log' = Report(PoiFiles[fpos], "error")
    /\ fpos' = OnException(fpos)
    /\ UNCHANGED <<pc, xvars, tracts, counties, sindex, files, pois, joined>>

(* a collection that has a county_name column already: the join renames   *)
(* both, joined['county_name'] raises KeyError: except Exception           *)
JoinKeyError ==
    /\ InLoop
    /\ files[PoiFiles[fpos]].state = "ok"
    /\ LET read == read_file(files[PoiFiles[fpos]])
           frame == Deduplicated(read)
       IN  /\ "county_name" \notin Columns(frame)
           /\ pois' = read
           /\ joined' = frame
    /\ log' = Report(PoiFiles[fpos], "error")
    /\ fpos' = OnException(fpos)
    /\ UNCHANGED <<pc, xvars, tracts, counties, sindex, files>>

ProcessAndSave ==
    /\ InLoop
    /\ files[PoiFiles[fpos]].state = "ok"
    /\ LET read == read_file(files[PoiFiles[fpos]])
           frame == Deduplicated(read)
       IN  /\ "county_name" \in Columns(frame)
           /\ pois' = read
           /\ joined' = FillNames(frame)
    /\ files' = [files EXCEPT ![PoiFiles[fpos]] = to_file(joined')]
    /\ log' = Report(PoiFiles[fpos], "saved")
    /\ fpos' = fpos + 1
    /\ UNCHANGED <<pc, xvars, tracts, counties, sindex>>

(* joined.to_file raises before it has written: except Exception *)
SaveFails ==
    /\ InLoop
    /\ files[PoiFiles[fpos]].state = "ok"
    /\ LET read == read_file(files[PoiFiles[fpos]])
           frame == Deduplicated(read)
       IN  /\ "county_name" \in Columns(frame)
           /\ pois' = read
           /\ joined' = FillNames(frame)
    /\ log' = Report(PoiFiles[fpos], "error")
    /\ fpos' = OnException(fpos)
    /\ UNCHANGED <<pc, xvars, tracts, counties, sindex, files>>

FinishJoin ==
    /\ pc = "files"
    /\ fpos > Len(PoiFiles)
    /\ pc' = "done"
    /\ UNCHANGED <<xvars, jvars>>

InitJoin ==
    /\ pc = "tracts"
    /\ tracts \in TractFrames
    /\ files \in [Range(PoiFiles) -> FileStates]
    /\ counties = << >>
    /\ sindex = << >>
    /\ fpos = 0
    /\ pois = << >>
    /\ joined = << >>
    /\ log = << >>
    /\ CrosswalkIdle

NextJoin ==
    \/ LoadTracts
    \/ SkipMissing
    \/ ReadFails
    \/ JoinKeyError
    \/ ProcessAndSave
    \/ SaveFails
    \/ FinishJoin

SpecJoin == InitJoin /\ [][NextJoin]_vars

-----------------------------------------------------------------------------
(* Statements about augment_pois *)

LastEvent == IF log = << >> THEN "none" ELSE log[Len(log)].event

(* the label of the first county the spatial index yields for the point,   *)
(* the empty label when no county intersects it                            *)
ExpectedLabel(p) ==
    LET hits == { h \in DOMAIN sindex : Intersects(p, counties[sindex[h]].geometry) }
    IN  IF hits = {} THEN ""
        ELSE counties[sindex[CHOOSE h \in hits : \A g \in hits : h <= g]].county_name

MatchCount(p) ==
    Cardinality({ k \in DOMAIN counties : Intersects(p, counties[k].geometry) })

(* C5: in the frame built from a collection every point of the collection  *)
(* (every index label of the frame read) occurs exactly once, whether it    *)
(* intersects no, one or several counties; and the file saved has one       *)
(* feature per point, in order.                                             *)
C5_EachPointExactlyOnce ==
    /\ \A i \in DOMAIN pois :
           Cardinality({ j \in DOMAIN joined : joined[j]["index"] = pois[i]["index"] }) = 1
    /\ Len(joined) = Len(pois)
    /\ LastEvent = "saved" =>
           LET rows == files[log[Len(log)].file].rows
           IN  /\ Len(rows) = Len(pois)
               /\ \A i \in DOMAIN rows : rows[i]["geometry"] = pois[i]["geometry"]

(* a saved collection with a point on the border of two counties and a     *)
(* point in no county                                                      *)
C5_Witness ==
    /\ LastEvent = "saved"
    /\ \E i, j \in DOMAIN pois :
           /\ MatchCount(pois[i]["geometry"]) = 2
           /\ MatchCount(pois[j]["geometry"]) = 0

LabelFollowsCountyRowOrder ==
    LastEvent = "saved" =>
        \A j \in DOMAIN joined :
            LET hits == { k \in DOMAIN counties :
                            Intersects(joined[j]["geometry"], counties[k].geometry) }
            IN  joined[j]["county_name"] =
                    IF hits = {} THEN ""
                    ELSE counties[CHOOSE k \in hits : \A g \in hits : k <= g].county_name

(* a collection the try block can carry through: present, readable, and    *)
(* not yet labelled                                                        *)
Processable(file) == file.state = "ok" /\ "county_name" \notin Columns(file.rows)

ExpectedFile(file) ==
    [state |-> "ok",
     rows |-> [i \in DOMAIN file.rows |->
                  [geometry |-> file.rows[i]["geometry"],
                   county_name |-> ExpectedLabel(file.rows[i]["geometry"])]]]

(* one pass of the loop: whatever happens to the file at hand, the loop     *)
(* goes on to the next file, reports the one file, leaves every other file  *)
(* as it is, and writes the file at hand, when it writes it, with the       *)
(* content that depends on that file alone                                  *)
PassIsolated ==
    InLoop =>
        LET f == PoiFiles[fpos]
            ev == log'[Len(log')].event
        IN  /\ pc' = "files"
            /\ fpos' = fpos + 1
            /\ \A g \in DOMAIN files \ {f} : files'[g] = files[g]
            /\ Len(log') = Len(log) + 1
            /\ SubSeq(log', 1, Len(log)) = log
            /\ log'[Len(log')].file = f
            /\ (ev = "skipped") <=> (files[f].state = "missing")
            /\ (ev = "saved") => (Processable(files[f]) /\ files'[f] = ExpectedFile(files[f]))
            /\ ~Processable(files[f]) => (ev # "saved" /\ files'[f] = files[f])

EveryFileReported ==
    pc = "done" =>
        /\ Len(log) = Len(PoiFiles)
        /\ \A k \in DOMAIN log : log[k].file = PoiFiles[k]

(* C7: a collection that is missing, unreadable, or fails in the join or    *)
(* the save is reported for itself alone; the loop goes on, and every other *)
(* collection of the list is processed and written as its own content       *)
(* determines.                                                              *)
C7_FailureIsolated == [][PassIsolated]_vars /\ []EveryFileReported

(* a run that ended after an error on the first collection and saved the   *)
(* second with its labels                                                  *)
C7_Witness ==
    /\ pc = "done"
    /\ log[1].event = "error"
    /\ log[2].event = "saved"
    /\ \E i \in DOMAIN files[PoiFiles[2]].rows :
           files[PoiFiles[2]].rows[i]["county_name"] = "B"

=============================================================================
